---- MODULE Spec2Model ----
\* A model of the replicated key/value server (package kvserver): the RPC
\* handlers OpenSession / Get / Update, submit, the apply pump, the snapshot
\* encoder/decoder and the session reaper of one replica, together with the
\* consensus module (package raft) this replica talks to.
EXTENDS Integers, Sequences, FiniteSets, TLC

\* ---------------------------------------------------------------- bounds
\* the longest raft log the model builds
MaxLog == 3
\* the highest raft term
MaxTerm == 3
\* the last instant of the clock, in seconds
MaxTime == 4
\* how often the process is killed and started again
MaxRestarts == 1

\* ---------------------------------------------------------------- constants
DefaultSessionTimeout == 3600

SessionIdSeparator == "-"

\* the request handlers: h1 serves every kind of request, h2 is a second
\* handler that runs while h1 does and serves writes
Clients == {"h1", "h2"}

\* keys in the order encoding/json writes them (sorted)
KeyOrder == <<"a", "b">>

Keys == {KeyOrder[i] : i \in 1..Len(KeyOrder)}

\* values are strings: sequences of characters
Values == {<<"x">>}

\* the random part of a session id (uuid.NewV4().String())
UUIDs == {<<"u">>}

Passwords == {"secret", "wrong"}

\* the runs explored: kvserver.maxRaftState and kvserver.sessionTimeout as the
\* yaml file gives them, the handlers the RPC server runs at once, and how
\* often the process is killed and started again
Scenarios ==
    { [maxRaftState |-> 0, sessionTimeout |-> -1, handlers |-> {"h1", "h2"},
       restarts |-> 0],
      [maxRaftState |-> 2, sessionTimeout |-> -1, handlers |-> {"h1"},
       restarts |-> MaxRestarts] }

\* the runs with a session reaper
TimedScenarios ==
    { [maxRaftState |-> 0, sessionTimeout |-> 2, handlers |-> {"h1"},
       restarts |-> MaxRestarts] }

\* the runs that differ in kvserver.sessionTimeout: negative, not set, set
StartScenarios ==
    { [maxRaftState |-> 0, sessionTimeout |-> t, handlers |-> {"h1"},
       restarts |-> MaxRestarts] : t \in {-1, 0, 2} }

\* the runs under fair scheduling
LiveScenarios ==
    {[maxRaftState |-> 2, sessionTimeout |-> -1, handlers |-> {"h1"}, restarts |-> 0]}

\* enum RequestType
RequestTypes == {"OPEN_SESSION", "GET", "PUT", "APPEND", "DELETE"}

UpdateTypes == {"PUT", "APPEND", "DELETE"}

\* enum ErrCode
ErrCodes == {"WRONG_LEADER", "OK", "NO_KEY", "INVALID_SESSION",
             "INVALID_REQUEST_TYPE", "INVALID_PASSWORD"}

\* ---------------------------------------------------------------- strings
Digits == <<"0", "1", "2", "3", "4", "5", "6", "7", "8", "9">>

\* strconv.FormatInt(n, 10) for n >= 0; also the JSON text of an integer
RECURSIVE FormatInt(_)
FormatInt(n) ==
    IF n < 10 THEN <<Digits[n + 1]>>
    ELSE FormatInt(n \div 10) \o <<Digits[(n % 10) + 1]>>

DigitValue(ch) == CHOOSE d \in 0..9 : Digits[d + 1] = ch

\* the integer a JSON number text stands for
RECURSIVE ParseInt(_)
ParseInt(s) ==
    IF Len(s) = 0 THEN 0
    ELSE 10 * ParseInt(SubSeq(s, 1, Len(s) - 1)) + DigitValue(s[Len(s)])

\* sessionId = strconv.FormatInt(kv.uniqueId, 10) + SessionIdSeparator + op.UUID
MakeSessionId(uid, uuid) == FormatInt(uid) \o <<SessionIdSeparator>> \o uuid

\* ---------------------------------------------------------------- commands
\* raft.Op
Op(t, k, v, u) == [RequestType |-> t, Key |-> k, Value |-> v, UUID |-> u]

NoOp == Op("", "", <<>>, <<>>)

\* v, exist := kv.tab[key]
Lookup(t, k) == IF k \in DOMAIN t THEN t[k] ELSE <<>>

\* Append that forgets the previous value
ApplyTabAppendOverwrites(t, op) ==
    CASE op.RequestType \in {"PUT", "APPEND"} ->
           [k \in DOMAIN t \cup {op.Key} |-> IF k = op.Key THEN op.Value ELSE t[k]]
      [] op.RequestType = "DELETE" ->
           [k \in DOMAIN t \ {op.Key} |-> t[k]]
      [] OTHER -> t

\* the effect of one command on (uniqueId, tab): the dispatch on op.RequestType
ApplyTab(t, op) ==
    CASE op.RequestType = "PUT" ->
           [k \in DOMAIN t \cup {op.Key} |-> IF k = op.Key THEN op.Value ELSE t[k]]
      [] op.RequestType = "APPEND" ->
           [k \in DOMAIN t \cup {op.Key} |->
               IF k = op.Key THEN Lookup(t, op.Key) \o op.Value ELSE t[k]]
      [] op.RequestType = "DELETE" ->
           [k \in DOMAIN t \ {op.Key} |-> t[k]]
      [] OTHER -> t

\* a counter that every applied command advances
ApplyUniqueIdEveryCommand(uid, op) == uid + 1

ApplyUniqueId(uid, op) ==
    IF op.RequestType = "OPEN_SESSION" THEN uid + 1 ELSE uid

\* ---------------------------------------------------------------- snapshots
\* json.Encoder writes three documents: uniqueId, commitIndex, tab. A JSON
\* object is written with its keys sorted; here it is the sequence of
\* <<key, value>> members.
EncodeTab(t) ==
    LET present == SelectSeq(KeyOrder, LAMBDA k : k \in DOMAIN t)
    IN  [i \in 1..Len(present) |-> <<present[i], t[present[i]]>>]

DecodeTab(members) ==
    [k \in {members[i][1] : i \in 1..Len(members)} |->
        (CHOOSE m \in {members[i] : i \in 1..Len(members)} : m[1] = k)[2]]

\* a snapshot encoded before commitIndex is advanced
makeSnapshotBeforeCommit(uid, ci, t) ==
    <<FormatInt(uid), FormatInt(ci - 1), EncodeTab(t)>>

makeSnapshot(uid, ci, t) == <<FormatInt(uid), FormatInt(ci), EncodeTab(t)>>

\* a recoverFrom that does not install the decoded uniqueId
recoverFromKeepsUniqueId(snapshot, uid, ci, t) ==
    IF Len(snapshot) < 1
    THEN [uniqueId |-> uid, commitIndex |-> ci, tab |-> t]
    ELSE [uniqueId |-> uid,
          commitIndex |-> ParseInt(snapshot[2]),
          tab |-> DecodeTab(snapshot[3])]

\* what recoverFrom installs; a nil or empty snapshot leaves the state alone
recoverFrom(snapshot, uid, ci, t) ==
    IF Len(snapshot) < 1
    THEN [uniqueId |-> uid, commitIndex |-> ci, tab |-> t]
    ELSE [uniqueId |-> ParseInt(snapshot[1]),
          commitIndex |-> ParseInt(snapshot[2]),
          tab |-> DecodeTab(snapshot[3])]

EmptyTab == [k \in {} |-> <<>>]

\* ---------------------------------------------------------------- state
VARIABLES
    \* KVServer (persistent part)
    tab, commitIndex, uniqueId,
    \* KVServer (volatile part)
    sessionMap, replyChan, nextSnapshotIndex, maxRaftState, sessionTimeout,
    \* kv.mu: "free", "apply" (the apply pump is inside its critical section)
    mu,
    \* the channel each handler made in submit: [buf, closed]
    chan,
    \* the request handlers: position, request, (commandIndex, commandTerm)
    pc, req, cmd,
    \* the reply a handler returned in the last step, with the request it answers
    reply,
    \* the apply pump: the message taken from applyCh
    msg,
    \* the reaper: when its time.Sleep ends
    wakeAt,
    \* the consensus module of this replica
    log, raftCommit, lastApplied, currentTerm, isLeader,
    \* tool.Storage: the persisted snapshot, and the configuration file
    stored, conf,
    \* the clock, the number of restarts still to come, the handlers that serve
    now, restarts, active,
    \* history: the session ids formed by this process and not reaped since,
    \* and for each index this process's apply pump executed, the term of the
    \* entry and the session id it formed
    issued, applied

kvVars == <<tab, commitIndex, uniqueId, sessionMap, replyChan,
            nextSnapshotIndex, maxRaftState, sessionTimeout, mu, chan>>

handlerVars == <<pc, req, cmd>>

raftVars == <<log, raftCommit, lastApplied, currentTerm, isLeader, stored>>

vars == <<kvVars, handlerVars, reply, msg, wakeAt, raftVars, conf, now, restarts,
          active, issued, applied>>

NoMsg == [kind |-> "none", index |-> 0, term |-> 0, op |-> NoOp, snapshot |-> <<>>]

NoReq == [rpc |-> "", RequestType |-> "", Key |-> "", Value |-> <<>>,
          SessionId |-> <<>>]

NoCmd == [index |-> 0, term |-> 0, op |-> NoOp]

NoReply == [rpc |-> "", ErrCode |-> "", Value |-> <<>>, SessionId |-> <<>>,
            command |-> NoOp, index |-> 0, term |-> 0, wellFormed |-> FALSE,
            leaderAtEntry |-> FALSE, sessionIssued |-> FALSE]

\* no handler returned in this step
NoReturn == reply' = NoReply

NoChan == [buf |-> <<>>, closed |-> FALSE]

NoSnapshot == [index |-> 0, bytes |-> <<>>]

\* ApplyResult
ApplyResult(term, sessionId) == [Term |-> term, SessionId |-> sessionId]

\* the session ids a client may present
ClientSessionIds ==
    {MakeSessionId(u, n) : u \in 1..2, n \in UUIDs}

\* ---------------------------------------------------------------- startup
\* StartKVServer: the state machine from the stored snapshot (or empty), then
\* the configuration
StartState(snapshot) ==
    IF Len(snapshot) > 0
    THEN recoverFrom(snapshot, 0, 0, EmptyTab)
    ELSE [uniqueId |-> 1, commitIndex |-> 0, tab |-> EmptyTab]

StartMaxRaftState(c) == IF c.maxRaftState > 0 THEN c.maxRaftState ELSE -1

StartNextSnapshotIndex(c, ci) ==
    IF c.maxRaftState > 0 THEN ci + c.maxRaftState ELSE -1

\* a sessionTimeout that is not set stays 0
StartSessionTimeoutUnset(c) == c.sessionTimeout

StartSessionTimeout(c) ==
    IF c.sessionTimeout >= 0
    THEN (IF c.sessionTimeout = 0 THEN DefaultSessionTimeout ELSE c.sessionTimeout)
    ELSE c.sessionTimeout

\* the error StartKVServer returns for a configuration, "" when it returns
\* the server: of the kvserver settings only a negative port is refused
StartError(c) == IF c.port < 0 THEN "configure KVServer" ELSE ""

\* go kv.cleanupSessions() runs
ReaperStarted == sessionTimeout > 0

\* the state StartKVServer leaves, with an empty store and an empty raft log
InitScenario(sc) ==
    /\ conf = [maxRaftState |-> sc.maxRaftState,
               sessionTimeout |-> sc.sessionTimeout, password |-> "secret",
               port |-> 0]
    /\ StartError(conf) = ""
    /\ active = sc.handlers
    /\ restarts = sc.restarts
    /\ stored = NoSnapshot
    /\ LET s == StartState(stored.bytes)
       IN  /\ tab = s.tab
           /\ commitIndex = s.commitIndex
           /\ uniqueId = s.uniqueId
           /\ nextSnapshotIndex = StartNextSnapshotIndex(conf, s.commitIndex)
    /\ maxRaftState = StartMaxRaftState(conf)
    /\ sessionTimeout = StartSessionTimeout(conf)
    /\ sessionMap = [s \in {} |-> 0]
    /\ replyChan = [i \in {} |-> ""]
    /\ mu = "free"
    /\ chan = [c \in Clients |-> NoChan]
    /\ pc = [c \in Clients |-> "idle"]
    /\ req = [c \in Clients |-> NoReq]
    /\ cmd = [c \in Clients |-> NoCmd]
    /\ reply = NoReply
    /\ msg = NoMsg
    /\ wakeAt = StartSessionTimeout(conf)
    /\ log = <<>>
    /\ raftCommit = 0
    /\ lastApplied = 0
    /\ currentTerm = 0
    /\ isLeader = FALSE
    /\ now = 0
    /\ issued = {}
    /\ applied = [i \in {} |-> 0]

Init == \E sc \in Scenarios : InitScenario(sc)

InitTimed == \E sc \in TimedScenarios : InitScenario(sc)

\* ---------------------------------------------------------------- handlers
Request(rpc, requestType, key, value, sessionId, password) ==
    [rpc |-> rpc, RequestType |-> requestType, Key |-> key, Value |-> value,
     SessionId |-> sessionId, Password |-> password]

\* the request's type fits the RPC
TypeOk(request) ==
    CASE request.rpc = "OpenSession" -> request.RequestType = "OPEN_SESSION"
      [] request.rpc = "Get" -> request.RequestType = "GET"
      [] request.rpc = "Update" -> request.RequestType \in UpdateTypes

\* a handler returns at its entry checks: the reply, and what the request was
\* like (its type fits the RPC and its password is right; the replica led when
\* it came in; its session id is one this process formed and has not reaped)
Reject(c, request, err) ==
    [rpc |-> request.rpc, ErrCode |-> err, Value |-> <<>>, SessionId |-> <<>>,
     command |-> cmd[c].op, index |-> cmd[c].index, term |-> cmd[c].term,
     wellFormed |-> /\ TypeOk(request)
                    /\ request.rpc = "OpenSession" => request.Password = conf.password,
     leaderAtEntry |-> isLeader,
     sessionIssued |-> request.SessionId \in issued]

\* a handler returns after it went through the entry checks
Answer(c, err, value, sessionId) ==
    [rpc |-> req[c].rpc, ErrCode |-> err, Value |-> value, SessionId |-> sessionId,
     command |-> cmd[c].op, index |-> cmd[c].index, term |-> cmd[c].term,
     wellFormed |-> TRUE, leaderAtEntry |-> TRUE,
     sessionIssued |-> req[c].rpc # "OpenSession"]

\* the handler returns: its reply goes to the client and its locals are gone
Finish(c, r) ==
    /\ pc' = [pc EXCEPT ![c] = "idle"]
    /\ req' = [req EXCEPT ![c] = NoReq]
    /\ cmd' = [cmd EXCEPT ![c] = NoCmd]
    /\ reply' = r

\* what the handler still uses of the request once the entry checks are passed
Accepted(request) ==
    [rpc |-> request.rpc, RequestType |-> request.RequestType, Key |-> request.Key,
     Value |-> request.Value, SessionId |-> request.SessionId]

\* the command a handler hands to submit
Command(request, uuid) ==
    IF request.rpc = "OpenSession"
    THEN Op("OPEN_SESSION", "", <<>>, uuid)
    ELSE Op(request.RequestType, request.Key, request.Value, <<>>)

\* kv.rf.Start(op) on a leader: the entry is appended to the log
Start(c, op) ==
    /\ Len(log) < MaxLog
    /\ log' = Append(log, [term |-> currentTerm, op |-> op])
    /\ cmd' = [cmd EXCEPT ![c] =
                 [index |-> Len(log) + 1, term |-> currentTerm, op |-> op]]

\* the entry checks of OpenSession: the error they answer, "" when they pass
OpenSessionCheck(request) ==
    IF request.RequestType # "OPEN_SESSION" THEN "INVALID_REQUEST_TYPE"
    ELSE IF request.Password # conf.password THEN "INVALID_PASSWORD"
    ELSE ""

\* OpenSession that submits on a leader before it looks at the request
OpenSessionSubmitsFirst(c, password, requestType, uuid) ==
    LET request == Request("OpenSession", requestType, "", <<>>, <<>>, password)
        err == OpenSessionCheck(request)
    IN  /\ pc[c] = "idle"
        /\ IF ~isLeader
           THEN /\ Finish(c, Reject(c, request, IF err # "" THEN err ELSE "WRONG_LEADER"))
                /\ UNCHANGED log
           ELSE /\ Len(log) < MaxLog
                /\ log' = Append(log, [term |-> currentTerm,
                                       op |-> Command(request, uuid)])
                /\ IF err # ""
                   THEN Finish(c, Reject(c, request, err))
                   ELSE /\ cmd' = [cmd EXCEPT ![c] =
                                     [index |-> Len(log) + 1, term |-> currentTerm,
                                      op |-> Command(request, uuid)]]
                        /\ pc' = [pc EXCEPT ![c] = "install"]
                        /\ req' = [req EXCEPT ![c] = Accepted(request)]
                        /\ NoReturn
        /\ UNCHANGED <<kvVars, msg, wakeAt, raftCommit, lastApplied, currentTerm,
                       isLeader, stored, conf, active, now, restarts, issued, applied>>

\* OpenSession up to the return of kv.rf.Start in submit
OpenSession(c, password, requestType, uuid) ==
    LET request == Request("OpenSession", requestType, "", <<>>, <<>>, password)
        err == OpenSessionCheck(request)
    IN  /\ pc[c] = "idle"
        /\ IF err # ""
           THEN /\ Finish(c, Reject(c, request, err))
                /\ UNCHANGED log
           ELSE IF ~isLeader
           THEN /\ Finish(c, Reject(c, request, "WRONG_LEADER"))
                /\ UNCHANGED log
           ELSE /\ Start(c, Command(request, uuid))
                /\ pc' = [pc EXCEPT ![c] = "install"]
                /\ req' = [req EXCEPT ![c] = Accepted(request)]
                /\ NoReturn
        /\ UNCHANGED <<kvVars, msg, wakeAt, raftCommit, lastApplied, currentTerm,
                       isLeader, stored, conf, active, now, restarts, issued, applied>>

\* checkSession that takes any session id that is not empty
SessionValidIfNamed(sessionId) == sessionId # <<>>

\* checkSession: kv.sessionMap[sessionId] is present
SessionValid(sessionId) == sessionId \in DOMAIN sessionMap

\* entry checks that look at the session before they ask who leads
EntryCheckSessionFirst(request) ==
    IF ~TypeOk(request) THEN "INVALID_REQUEST_TYPE"
    ELSE IF ~SessionValid(request.SessionId) THEN "INVALID_SESSION"
    ELSE IF ~isLeader THEN "WRONG_LEADER"
    ELSE ""

\* the entry checks of Get and Update: the request type, rf.GetState(), then
\* checkSession; the error they answer, "" when they pass
EntryCheck(request) ==
    IF ~TypeOk(request) THEN "INVALID_REQUEST_TYPE"
    ELSE IF ~isLeader THEN "WRONG_LEADER"
    ELSE IF ~SessionValid(request.SessionId) THEN "INVALID_SESSION"
    ELSE ""

\* a checkSession that stamps the session id before it looks it up
CheckedRequestStampsFirst(c, request) ==
    LET err == EntryCheck(request)
    IN  /\ pc[c] = "idle"
        /\ err \in {"INVALID_SESSION", ""} => mu = "free"
        /\ sessionMap' = IF err \in {"INVALID_SESSION", ""}
                         THEN [x \in DOMAIN sessionMap \cup {request.SessionId} |->
                                 IF x = request.SessionId THEN now ELSE sessionMap[x]]
                         ELSE sessionMap
        /\ IF err # ""
           THEN Finish(c, Reject(c, request, err))
           ELSE /\ pc' = [pc EXCEPT ![c] = "start"]
                /\ req' = [req EXCEPT ![c] = Accepted(request)]
                /\ NoReturn
                /\ UNCHANGED cmd
        /\ UNCHANGED <<tab, commitIndex, uniqueId, replyChan, nextSnapshotIndex,
                       maxRaftState, sessionTimeout, mu, chan, msg, wakeAt, raftVars,
                       conf, active, now, restarts, issued, applied>>

\* Get and Update up to the return of checkSession, which runs under kv.mu and
\* touches the session it finds
CheckedRequest(c, request) ==
    LET err == EntryCheck(request)
    IN  /\ pc[c] = "idle"
        /\ err \in {"INVALID_SESSION", ""} => mu = "free"
        /\ IF err # ""
           THEN /\ Finish(c, Reject(c, request, err))
                /\ UNCHANGED sessionMap
           ELSE /\ sessionMap' = [x \in DOMAIN sessionMap \cup {request.SessionId} |->
                                    IF x = request.SessionId THEN now ELSE sessionMap[x]]
                /\ pc' = [pc EXCEPT ![c] = "start"]
                /\ req' = [req EXCEPT ![c] = Accepted(request)]
                /\ NoReturn
                /\ UNCHANGED cmd
        /\ UNCHANGED <<tab, commitIndex, uniqueId, replyChan, nextSnapshotIndex,
                       maxRaftState, sessionTimeout, mu, chan, msg, wakeAt, raftVars,
                       conf, active, now, restarts, issued, applied>>

Get(c, key, sessionId, requestType) ==
    CheckedRequest(c, Request("Get", requestType, key, <<>>, sessionId, ""))

Update(c, key, value, requestType, sessionId) ==
    CheckedRequest(c, Request("Update", requestType, key, value, sessionId, ""))

\* submit, first part, for Get and Update: kv.rf.Start(op)
submitStart(c) ==
    /\ pc[c] = "start"
    /\ IF ~isLeader
       THEN /\ Finish(c, Answer(c, "WRONG_LEADER", <<>>, <<>>))
            /\ UNCHANGED log
       ELSE /\ Start(c, Command(req[c], <<>>))
            /\ pc' = [pc EXCEPT ![c] = "install"]
            /\ NoReturn
            /\ UNCHANGED req
    /\ UNCHANGED <<kvVars, msg, wakeAt, raftCommit, lastApplied, currentTerm,
                   isLeader, stored, conf, active, now, restarts, issued, applied>>

\* the term submit sends to the waiter it displaces
DisplaceTerm(c) == cmd[c].term

\* a submit that registers its channel over the one that is there
submitInstallOverwrites(c) ==
    /\ pc[c] = "install"
    /\ mu = "free"
    /\ chan' = [chan EXCEPT ![c] = NoChan]
    /\ replyChan' = [j \in DOMAIN replyChan \cup {cmd[c].index} |->
                       IF j = cmd[c].index THEN c ELSE replyChan[j]]
    /\ pc' = [pc EXCEPT ![c] = "wait"]
    /\ NoReturn
    /\ UNCHANGED <<tab, commitIndex, uniqueId, sessionMap, nextSnapshotIndex,
                   maxRaftState, sessionTimeout, mu, req, cmd, msg, wakeAt,
                   raftVars, conf, active, now, restarts, issued, applied>>

\* submit, second part: under kv.mu, displace the waiter registered at
\* commandIndex, then register a fresh channel
submitInstall(c) ==
    /\ pc[c] = "install"
    /\ mu = "free"
    /\ LET i == cmd[c].index
           old == IF i \in DOMAIN replyChan THEN replyChan[i] ELSE ""
       IN  IF old # "" /\ (chan[old].closed \/ Len(chan[old].buf) >= 1)
           THEN \* a send on a closed channel panics, one on a full channel
                \* blocks with the lock held
                /\ mu' = c
                /\ pc' = [pc EXCEPT ![c] = "stuck"]
                /\ UNCHANGED <<chan, replyChan>>
           ELSE /\ chan' = [x \in Clients |->
                              IF x = c THEN NoChan
                              ELSE IF x = old
                              THEN [buf |-> <<ApplyResult(DisplaceTerm(c), <<>>)>>,
                                    closed |-> TRUE]
                              ELSE chan[x]]
                /\ replyChan' = [j \in DOMAIN replyChan \cup {i} |->
                                   IF j = i THEN c ELSE replyChan[j]]
                /\ pc' = [pc EXCEPT ![c] = "wait"]
                /\ UNCHANGED mu
    /\ NoReturn
    /\ UNCHANGED <<tab, commitIndex, uniqueId, sessionMap, nextSnapshotIndex,
                   maxRaftState, sessionTimeout, req, cmd, msg, wakeAt,
                   raftVars, conf, active, now, restarts, issued, applied>>

\* any result that the apply pump or a displacing submit sent is taken
TermMatchesAny(res, c) == res.Term > 0

\* res.Term == commandTerm
TermMatches(res, c) == res.Term = cmd[c].term

\* submit, third part: res := <-ch, the comparison of the terms, and the
\* handler's code after submit (Get still has to read kv.tab)
submitRecv(c) ==
    /\ pc[c] = "wait"
    /\ Len(chan[c].buf) >= 1 \/ chan[c].closed
    /\ LET res == IF Len(chan[c].buf) >= 1 THEN Head(chan[c].buf)
                  ELSE ApplyResult(0, <<>>)
       IN  /\ chan' = [chan EXCEPT ![c] = NoChan]
           /\ IF TermMatches(res, c)
              THEN IF req[c].rpc = "Get"
                   THEN /\ pc' = [pc EXCEPT ![c] = "read"]
                        /\ NoReturn
                        /\ UNCHANGED <<req, cmd>>
                   ELSE Finish(c, Answer(c, "OK", <<>>,
                               IF req[c].rpc = "OpenSession" THEN res.SessionId
                               ELSE <<>>))
              ELSE Finish(c, Answer(c, "WRONG_LEADER", <<>>, <<>>))
    /\ UNCHANGED <<tab, commitIndex, uniqueId, sessionMap, replyChan,
                   nextSnapshotIndex, maxRaftState, sessionTimeout, mu,
                   msg, wakeAt, raftVars, conf, active, now, restarts, issued, applied>>

\* Get after submit returned OK: v, exist := kv.tab[args.Key], without kv.mu
GetRead(c) ==
    /\ pc[c] = "read"
    /\ IF req[c].Key \in DOMAIN tab
       THEN Finish(c, Answer(c, "OK", tab[req[c].Key], <<>>))
       ELSE Finish(c, Answer(c, "NO_KEY", <<>>, <<>>))
    /\ UNCHANGED <<kvVars, msg, wakeAt, raftVars, conf, active, now, restarts, issued, applied>>

\* ---------------------------------------------------------------- consensus
\* the state machine after the first n entries of the log were applied to the
\* empty state, as every replica running this code computes it
RECURSIVE Replay(_, _)
Replay(entries, n) ==
    IF n = 0 THEN [uniqueId |-> 1, tab |-> EmptyTab]
    ELSE LET s == Replay(entries, n - 1)
         IN  [uniqueId |-> ApplyUniqueId(s.uniqueId, entries[n].op),
              tab |-> ApplyTab(s.tab, entries[n].op)]

\* the commands another leader may replicate to this replica
RemoteOps == {Op("OPEN_SESSION", "", <<>>, u) : u \in UUIDs}
             \cup {Op("PUT", KeyOrder[1], v, <<>>) : v \in Values}

\* the indices at which the peers, which run the same configuration, snapshot
PeerSnapshotIndices ==
    {s \in 1..Len(log) : conf.maxRaftState > 0 /\ s % conf.maxRaftState = 0}

\* the snapshot a peer made when its apply pump reached index s
PeerSnapshot(s) == LET st == Replay(log, s) IN makeSnapshot(st.uniqueId, s, st.tab)

\* this replica wins an election
BecomeLeader ==
    /\ ~isLeader
    /\ currentTerm < MaxTerm
    /\ currentTerm' = currentTerm + 1
    /\ isLeader' = TRUE
    /\ NoReturn
    /\ UNCHANGED <<kvVars, handlerVars, msg, wakeAt, log, raftCommit, lastApplied,
                   stored, conf, active, now, restarts, issued, applied>>

\* this replica sees a higher term and steps down
LoseLeadership ==
    /\ isLeader
    /\ currentTerm < MaxTerm
    /\ currentTerm' = currentTerm + 1
    /\ isLeader' = FALSE
    /\ NoReturn
    /\ UNCHANGED <<kvVars, handlerVars, msg, wakeAt, log, raftCommit, lastApplied,
                   stored, conf, active, now, restarts, issued, applied>>

\* the last index whose entry the leader of the current term wrote
LastOfTerm ==
    LET own == {i \in 1..Len(log) : log[i].term = currentTerm}
    IN  IF own = {} THEN 0 ELSE CHOOSE i \in own : \A j \in own : j <= i

\* the term of the leader this follower hears from: a replica that starts
\* with term 0 learns the term of the first leader
RemoteTerm == IF currentTerm = 0 THEN 1 ELSE currentTerm

\* AppendEntries from the leader of the current term: the uncommitted entries
\* of older terms after index keep are replaced
RemoteAppend(keep, op) ==
    /\ ~isLeader
    /\ keep >= raftCommit /\ keep >= LastOfTerm /\ keep <= Len(log)
    /\ keep < MaxLog
    /\ currentTerm' = RemoteTerm
    /\ log' = Append(SubSeq(log, 1, keep), [term |-> RemoteTerm, op |-> op])
    /\ NoReturn
    /\ UNCHANGED <<kvVars, handlerVars, msg, wakeAt, raftCommit, lastApplied,
                   isLeader, stored, conf, active, now, restarts, issued, applied>>

\* the next entry of the log is committed
Commit ==
    /\ raftCommit < Len(log)
    /\ raftCommit' = raftCommit + 1
    /\ NoReturn
    /\ UNCHANGED <<kvVars, handlerVars, msg, wakeAt, log, lastApplied, currentTerm,
                   isLeader, stored, conf, active, now, restarts, issued, applied>>

\* ---------------------------------------------------------------- apply pump
\* msg := <-kv.applyCh for a committed entry, and kv.mu.Lock()
applyRecvCommand ==
    /\ msg.kind = "none"
    /\ mu = "free"
    /\ lastApplied < raftCommit
    /\ lastApplied' = lastApplied + 1
    /\ msg' = [kind |-> "command", index |-> lastApplied + 1,
               term |-> log[lastApplied + 1].term, op |-> log[lastApplied + 1].op,
               snapshot |-> <<>>]
    /\ mu' = "apply"
    /\ NoReturn
    /\ UNCHANGED <<tab, commitIndex, uniqueId, sessionMap, replyChan,
                   nextSnapshotIndex, maxRaftState, sessionTimeout, chan,
                   handlerVars, wakeAt, log, raftCommit, currentTerm, isLeader,
                   stored, conf, active, now, restarts, issued, applied>>

\* the leader installs its snapshot of index s on this replica, which hands it
\* to the apply pump: msg := <-kv.applyCh, and kv.mu.Lock()
applyRecvSnapshot(s) ==
    /\ msg.kind = "none"
    /\ mu = "free"
    /\ ~isLeader
    /\ s \in PeerSnapshotIndices
    /\ s > lastApplied
    /\ raftCommit' = IF raftCommit < s THEN s ELSE raftCommit
    /\ lastApplied' = s
    /\ stored' = [index |-> s, bytes |-> PeerSnapshot(s)]
    /\ msg' = [kind |-> "snapshot", index |-> s, term |-> log[s].term, op |-> NoOp,
               snapshot |-> PeerSnapshot(s)]
    /\ mu' = "apply"
    /\ NoReturn
    /\ UNCHANGED <<tab, commitIndex, uniqueId, sessionMap, replyChan,
                   nextSnapshotIndex, maxRaftState, sessionTimeout, chan,
                   handlerVars, wakeAt, log, currentTerm, isLeader, conf, active, now,
                   restarts, issued, applied>>

\* raft hands the apply pump a committed command out of turn: msg := <-kv.applyCh
\* and kv.mu.Lock()
applyRecvStrayCommand(i) ==
    /\ msg.kind = "none"
    /\ mu = "free"
    /\ i \in 1..raftCommit
    /\ lastApplied' = i
    /\ msg' = [kind |-> "command", index |-> i, term |-> log[i].term,
               op |-> log[i].op, snapshot |-> <<>>]
    /\ mu' = "apply"
    /\ NoReturn
    /\ UNCHANGED <<tab, commitIndex, uniqueId, sessionMap, replyChan,
                   nextSnapshotIndex, maxRaftState, sessionTimeout, chan,
                   handlerVars, wakeAt, log, raftCommit, currentTerm, isLeader,
                   stored, conf, active, now, restarts, issued, applied>>

\* raft hands the apply pump the snapshot of any committed index, also one the
\* replica has passed
applyRecvStraySnapshot(s) ==
    /\ msg.kind = "none"
    /\ mu = "free"
    /\ s \in 1..raftCommit
    /\ lastApplied' = s
    /\ msg' = [kind |-> "snapshot", index |-> s, term |-> log[s].term, op |-> NoOp,
               snapshot |-> PeerSnapshot(s)]
    /\ mu' = "apply"
    /\ NoReturn
    /\ UNCHANGED <<tab, commitIndex, uniqueId, sessionMap, replyChan,
                   nextSnapshotIndex, maxRaftState, sessionTimeout, chan,
                   handlerVars, wakeAt, log, raftCommit, currentTerm, isLeader,
                   stored, conf, active, now, restarts, issued, applied>>

\* a command is taken when it is the next one or a later one
InOrderOrLater(commandIndex) == commandIndex > commitIndex

\* commandIndex == kv.commitIndex+1
InOrder(commandIndex) == commandIndex = commitIndex + 1

\* the result the apply pump sends to the waiter of the applied index
DeliveredResult(term, sessionId) == ApplyResult(term, sessionId)

\* kv.maxRaftState > 0 && commandIndex == kv.nextSnapshotIndex
SnapshotDue(commandIndex) == maxRaftState > 0 /\ commandIndex = nextSnapshotIndex

\* the session id an applied command forms ("" unless it is an OpenSession)
FormedSessionId(op) ==
    IF op.RequestType = "OPEN_SESSION" THEN MakeSessionId(uniqueId, op.UUID) ELSE <<>>

\* apply, a command message: the body of the critical section, and Unlock
applyCommand ==
    /\ msg.kind = "command"
    /\ msg' = NoMsg
    /\ mu' = "free"
    /\ IF ~InOrder(msg.index)
       THEN UNCHANGED <<tab, commitIndex, uniqueId, sessionMap, replyChan,
                        nextSnapshotIndex, chan, stored, issued, applied>>
       ELSE LET sessionId == FormedSessionId(msg.op)
                waiter == IF msg.index \in DOMAIN replyChan
                          THEN replyChan[msg.index] ELSE ""
            IN  \* ch <- ApplyResult{...} needs room in an open channel
                /\ waiter # "" => ~chan[waiter].closed /\ Len(chan[waiter].buf) < 1
                /\ commitIndex' = msg.index
                /\ uniqueId' = ApplyUniqueId(uniqueId, msg.op)
                /\ tab' = ApplyTab(tab, msg.op)
                /\ IF msg.op.RequestType = "OPEN_SESSION"
                   THEN /\ sessionMap' = [x \in DOMAIN sessionMap \cup {sessionId} |->
                                            IF x = sessionId THEN now ELSE sessionMap[x]]
                        /\ issued' = issued \cup {sessionId}
                   ELSE UNCHANGED <<sessionMap, issued>>
                /\ applied' = [j \in DOMAIN applied \cup {msg.index} |->
                                 IF j = msg.index
                                 THEN [term |-> msg.term, sessionId |-> sessionId]
                                 ELSE applied[j]]
                /\ IF waiter # ""
                   THEN /\ chan' = [chan EXCEPT ![waiter] =
                                      [buf |-> <<DeliveredResult(msg.term, sessionId)>>,
                                       closed |-> TRUE]]
                        /\ replyChan' = [j \in DOMAIN replyChan \ {msg.index} |->
                                           replyChan[j]]
                   ELSE UNCHANGED <<chan, replyChan>>
                /\ IF SnapshotDue(msg.index)
                   THEN /\ nextSnapshotIndex' = msg.index + maxRaftState
                        /\ stored' = [index |-> msg.index,
                                      bytes |-> makeSnapshot(uniqueId', commitIndex', tab')]
                   ELSE UNCHANGED <<nextSnapshotIndex, stored>>
    /\ NoReturn
    /\ UNCHANGED <<maxRaftState, sessionTimeout, handlerVars, wakeAt, log,
                   raftCommit, lastApplied, currentTerm, isLeader, conf, active, now,
                   restarts>>

\* apply, a snapshot message: recoverFrom under kv.mu, and Unlock
applySnapshot ==
    /\ msg.kind = "snapshot"
    /\ msg' = NoMsg
    /\ mu' = "free"
    /\ LET s == recoverFrom(msg.snapshot, uniqueId, commitIndex, tab)
       IN  /\ uniqueId' = s.uniqueId
           /\ commitIndex' = s.commitIndex
           /\ tab' = s.tab
    /\ NoReturn
    /\ UNCHANGED <<sessionMap, replyChan, nextSnapshotIndex, maxRaftState,
                   sessionTimeout, chan, handlerVars, wakeAt, raftVars, conf, active, now,
                   restarts, issued, applied>>

\* ---------------------------------------------------------------- reaper
\* a session is expired only when it is older than the timeout
ExpiredStrictly(lastVisitTime) == now - lastVisitTime > sessionTimeout

\* time.Since(lastVisitTime) >= timeout
Expired(lastVisitTime) == now - lastVisitTime >= sessionTimeout

\* one round of cleanupSessions: the sleep has ended; sweep under kv.mu
cleanupSessions ==
    /\ sessionTimeout > 0
    /\ now >= wakeAt
    /\ mu = "free"
    /\ LET expiredSessions == {x \in DOMAIN sessionMap : Expired(sessionMap[x])}
       IN  /\ sessionMap' = [x \in DOMAIN sessionMap \ expiredSessions |-> sessionMap[x]]
           /\ issued' = issued \ expiredSessions
    /\ wakeAt' = now + sessionTimeout
    /\ NoReturn
    /\ UNCHANGED <<tab, commitIndex, uniqueId, replyChan, nextSnapshotIndex,
                   maxRaftState, sessionTimeout, mu, chan, handlerVars, msg,
                   raftVars, conf, active, now, restarts, applied>>

\* a second passes; a sleeper whose time has come runs before the next one.
\* Only the reaper reads the clock: without a reaper its advance shows nowhere.
Tick ==
    /\ now < MaxTime
    /\ sessionTimeout > 0
    /\ now < wakeAt
    /\ now' = now + 1
    /\ NoReturn
    /\ UNCHANGED <<kvVars, handlerVars, msg, wakeAt, raftVars, conf, active, restarts,
                   issued, applied>>

\* ---------------------------------------------------------------- restart
\* the process is killed and StartKVServer runs again on the stored snapshot
Restart ==
    /\ restarts > 0
    /\ isLeader => currentTerm < MaxTerm
    /\ restarts' = restarts - 1
    /\ LET s == StartState(stored.bytes)
       IN  /\ tab' = s.tab
           /\ commitIndex' = s.commitIndex
           /\ uniqueId' = s.uniqueId
           /\ nextSnapshotIndex' = StartNextSnapshotIndex(conf, s.commitIndex)
    /\ maxRaftState' = StartMaxRaftState(conf)
    /\ sessionTimeout' = StartSessionTimeout(conf)
    /\ sessionMap' = [s \in {} |-> 0]
    /\ replyChan' = [i \in {} |-> ""]
    /\ mu' = "free"
    /\ chan' = [c \in Clients |-> NoChan]
    /\ pc' = [c \in Clients |-> "idle"]
    /\ req' = [c \in Clients |-> NoReq]
    /\ cmd' = [c \in Clients |-> NoCmd]
    /\ reply' = NoReply
    /\ msg' = NoMsg
    /\ wakeAt' = IF StartSessionTimeout(conf) > 0
                 THEN now + StartSessionTimeout(conf) ELSE StartSessionTimeout(conf)
    /\ lastApplied' = stored.index
    /\ isLeader' = FALSE
    /\ currentTerm' = IF isLeader THEN currentTerm + 1 ELSE currentTerm
    /\ issued' = {}
    /\ applied' = [i \in {} |-> 0]
    /\ UNCHANGED <<log, raftCommit, stored, conf, active, now>>

\* ---------------------------------------------------------------- behaviour
\* the requests a handler is given
OpenSessionInputs(c) ==
    IF c = "h1"
    THEN [password : Passwords, requestType : {"OPEN_SESSION", "GET"}, uuid : UUIDs]
    ELSE {}

GetInputs(c) ==
    IF c = "h1"
    THEN [key : Keys, sessionId : ClientSessionIds, requestType : {"GET", "PUT"}]
    ELSE {}

UpdateInputs(c) ==
    IF c = "h1"
    THEN [key : Keys, value : Values, requestType : UpdateTypes \cup {"GET"},
          sessionId : ClientSessionIds]
    ELSE [key : {KeyOrder[1]}, value : Values, requestType : {"PUT"},
          sessionId : {MakeSessionId(1, u) : u \in UUIDs}]

\* the steps of the handlers after the entry checks
Handle ==
    \/ \E c \in Clients : submitStart(c)
    \/ \E c \in Clients : submitInstall(c)
    \/ \E c \in Clients : submitRecv(c)
    \/ \E c \in Clients : GetRead(c)

Next ==
    \/ \E c \in active : \E i \in OpenSessionInputs(c) :
          OpenSession(c, i.password, i.requestType, i.uuid)
    \/ \E c \in active : \E i \in GetInputs(c) :
          Get(c, i.key, i.sessionId, i.requestType)
    \/ \E c \in active : \E i \in UpdateInputs(c) :
          Update(c, i.key, i.value, i.requestType, i.sessionId)
    \/ Handle
    \/ applyRecvCommand
    \/ \E s \in 1..MaxLog : applyRecvSnapshot(s)
    \/ applyCommand
    \/ applySnapshot
    \/ BecomeLeader
    \/ LoseLeadership
    \/ \E keep \in 0..MaxLog, op \in RemoteOps : RemoteAppend(keep, op)
    \/ Commit
    \/ Restart

\* the runs with a session reaper: what matters to the sessions is which
\* requests come with which session id, not what they read or write
NextTimed ==
    \/ \E c \in active : \E u \in UUIDs : OpenSession(c, conf.password, "OPEN_SESSION", u)
    \/ \E c \in active, sid \in ClientSessionIds : Get(c, KeyOrder[1], sid, "GET")
    \/ \E c \in active, sid \in ClientSessionIds, v \in Values :
          Update(c, KeyOrder[1], v, "PUT", sid)
    \/ Handle
    \/ applyRecvCommand
    \/ applyCommand
    \/ cleanupSessions
    \/ Tick
    \/ BecomeLeader
    \/ LoseLeadership
    \/ \E keep \in 0..MaxLog, u \in UUIDs :
          RemoteAppend(keep, Op("OPEN_SESSION", "", <<>>, u))
    \/ Commit
    \/ Restart

SpecTimed == InitTimed /\ [][NextTimed]_vars

\* the runs that differ in the configured session timeout: one handler that
\* opens sessions and reads with them on a replica that leads
InitStart == \E sc \in StartScenarios : InitScenario(sc)

NextStart ==
    \/ \E c \in active : \E u \in UUIDs : OpenSession(c, conf.password, "OPEN_SESSION", u)
    \/ \E c \in active, sid \in ClientSessionIds : Get(c, KeyOrder[1], sid, "GET")
    \/ Handle
    \/ applyRecvCommand
    \/ applyCommand
    \/ cleanupSessions
    \/ Tick
    \/ BecomeLeader
    \/ Commit
    \/ Restart

SpecStart == InitStart /\ [][NextStart]_vars

\* the runs in which the apply stream is arbitrary: raft hands the pump the
\* committed commands and the snapshots in any order
InitPump == \E sc \in LiveScenarios : InitScenario(sc)

NextPump ==
    \/ \E c \in active : \E u \in UUIDs : OpenSession(c, conf.password, "OPEN_SESSION", u)
    \/ \E c \in active : Get(c, KeyOrder[1], MakeSessionId(1, <<"u">>), "GET")
    \/ Handle
    \/ \E i \in 1..MaxLog : applyRecvStrayCommand(i)
    \/ \E i \in 1..MaxLog : applyRecvStraySnapshot(i)
    \/ applyCommand
    \/ applySnapshot
    \/ BecomeLeader
    \/ LoseLeadership
    \/ \E keep \in 0..MaxLog, op \in RemoteOps : RemoteAppend(keep, op)
    \/ Commit

SpecPump == InitPump /\ [][NextPump]_vars

Spec == Init /\ [][Next]_vars

\* the runs in which the goroutines are scheduled fairly: one handler that
\* opens a session and reads, on a replica that snapshots and gets snapshots
InitLive == \E sc \in LiveScenarios : InitScenario(sc)

NextLive ==
    \/ \E c \in active : \E u \in UUIDs : OpenSession(c, conf.password, "OPEN_SESSION", u)
    \/ \E c \in active : Get(c, KeyOrder[1], MakeSessionId(1, <<"u">>), "GET")
    \/ Handle
    \/ applyRecvCommand
    \/ \E s \in 1..MaxLog : applyRecvSnapshot(s)
    \/ applyCommand
    \/ applySnapshot
    \/ BecomeLeader
    \/ LoseLeadership
    \/ \E keep \in 0..MaxLog, op \in RemoteOps : RemoteAppend(keep, op)
    \/ Commit

\* a goroutine that can take its next step takes it: the handlers in submit
\* and after it, and the apply pump
Fairness ==
    /\ \A c \in Clients : WF_vars(submitStart(c))
    /\ \A c \in Clients : WF_vars(submitInstall(c))
    /\ \A c \in Clients : WF_vars(submitRecv(c))
    /\ \A c \in Clients : WF_vars(GetRead(c))
    /\ WF_vars(applyRecvCommand)
    /\ WF_vars(applyCommand)
    /\ WF_vars(applySnapshot)

FairSpec == InitLive /\ [][NextLive]_vars /\ Fairness

\* ---------------------------------------------------------------- properties
\* the lookup of a key in a table: the error code and the value of a Get
LookupReply(t, k) ==
    IF k \in DOMAIN t THEN [ErrCode |-> "OK", Value |-> t[k]]
    ELSE [ErrCode |-> "NO_KEY", Value |-> <<>>]

\* a handler returned what it returns after submit returned OK
SubmitOk(r) ==
    \/ r.rpc = "Get" /\ r.ErrCode \in {"OK", "NO_KEY"}
    \/ r.rpc \in {"Update", "OpenSession"} /\ r.ErrCode = "OK"

\* C1: a Get that returns OK or NO_KEY returns the lookup of its key in the
\* table as it is after exactly the log entries of index <= j have been
\* applied, j being the index consensus gave to the Get's own entry.
C1_GetReadsStateAtItsIndex ==
    (reply.rpc = "Get" /\ reply.ErrCode \in {"OK", "NO_KEY"}) =>
        LET r == LookupReply(Replay(log, reply.index).tab, reply.command.Key)
        IN  reply.ErrCode = r.ErrCode /\ reply.Value = r.Value

\* C2: submit returns OK only if the apply pump of this process has applied,
\* at the index Start returned, an entry of the term Start returned, so that
\* the entry executed at that index is the submitted command; the session id
\* an OpenSession returns is the one formed when its own entry was applied.
C2_OkOnlyForOwnAppliedEntry ==
    /\ SubmitOk(reply) =>
          /\ reply.index \in DOMAIN applied
          /\ applied[reply.index].term = reply.term
          /\ reply.index <= commitIndex
          /\ log[reply.index] = [term |-> reply.term, op |-> reply.command]
          /\ reply.rpc = "OpenSession" =>
                /\ reply.SessionId = applied[reply.index].sessionId
                /\ reply.SessionId =
                      MakeSessionId(Replay(log, reply.index - 1).uniqueId,
                                    reply.command.UUID)
    /\ \A c \in Clients : pc[c] = "read" =>
          /\ cmd[c].index \in DOMAIN applied
          /\ applied[cmd[c].index].term = cmd[c].term
          /\ log[cmd[c].index] = [term |-> cmd[c].term, op |-> cmd[c].op]

\* a handler got OK for its entry while the waiter it displaced at that index,
\* which had submitted in another term, has its answer still to read
C2_Witness ==
    /\ reply.ErrCode = "OK" /\ reply.index > 0
    /\ \E d \in Clients :
          /\ pc[d] = "wait" /\ chan[d].closed
          /\ cmd[d].index = reply.index /\ cmd[d].term # reply.term

\* C3: a submit whose Start reported leadership returns once commitIndex has
\* reached the index Start gave it, when the apply pump and the handler are
\* scheduled fairly.
C3_SubmitReturns ==
    \A c \in Clients :
        (pc[c] \in {"install", "wait"} /\ commitIndex >= cmd[c].index)
            ~> (pc[c] \notin {"install", "wait"})

\* the apply pump executes the command it holds
ApplyStep ==
    /\ msg.kind = "command" /\ msg.index = commitIndex + 1
    /\ msg'.kind = "none" /\ restarts' = restarts

\* C4: applying a command at index commitIndex + 1 changes the table so: Put
\* sets tab[key] to the value; Append sets it to the previous value (empty if
\* the key was absent) followed by the value; Delete removes the key; Get and
\* OpenSession leave the table alone; no other key changes.
C4_ApplyEffect ==
    [][ApplyStep =>
        LET op == msg.op
            k == op.Key
        IN  /\ CASE op.RequestType = "PUT" -> k \in DOMAIN tab' /\ tab'[k] = op.Value
                 [] op.RequestType = "APPEND" ->
                      /\ k \in DOMAIN tab'
                      /\ tab'[k] = (IF k \in DOMAIN tab THEN tab[k] ELSE <<>>) \o op.Value
                 [] op.RequestType = "DELETE" -> k \notin DOMAIN tab'
                 [] OTHER -> tab' = tab
            /\ \A j \in Keys \ {k} :
                  /\ j \in DOMAIN tab' <=> j \in DOMAIN tab
                  /\ j \in DOMAIN tab => tab'[j] = tab[j]
            /\ DOMAIN tab' \subseteq Keys]_vars

\* an Append was applied to a key that had a value
C4_Witness == \E k \in Keys : k \in DOMAIN tab /\ Len(tab[k]) = 2

\* a Get or Update passes the session check
PassesCheck(c) == pc[c] = "idle" /\ pc'[c] = "start"

\* C5: Get and Update pass the session check only with a session id that an
\* OpenSession applied by this process formed (uniqueId at the apply, the
\* separator, the nonce of the command) and that the reaper has not removed
\* since; on a leader, a well-typed request with any other session id is
\* answered INVALID_SESSION.
C5_SessionCheck ==
    [][/\ \A c \in Clients : PassesCheck(c) =>
             /\ req'[c].SessionId \in issued
             /\ \E i \in DOMAIN applied :
                   /\ applied[i].sessionId = req'[c].SessionId
                   /\ log[i].op.RequestType = "OPEN_SESSION"
                   /\ applied[i].sessionId =
                         MakeSessionId(Replay(log, i - 1).uniqueId, log[i].op.UUID)
       /\ (/\ reply'.rpc \in {"Get", "Update"}
           /\ reply'.wellFormed /\ reply'.leaderAtEntry /\ ~reply'.sessionIssued)
             => reply'.ErrCode = "INVALID_SESSION"]_vars

\* a request passed the check with a session this process formed, after the
\* reaper removed another one
C5_Witness ==
    /\ \E c \in Clients : pc[c] = "start" /\ req[c].SessionId \in issued
    /\ \E i \in DOMAIN applied :
          applied[i].sessionId # <<>> /\ applied[i].sessionId \notin issued

\* C6: a request answered INVALID_REQUEST_TYPE, INVALID_PASSWORD or
\* INVALID_SESSION never called Start: the log got no entry, no pending slot
\* was installed, and tab, commitIndex and uniqueId are as they were.
C6_InvalidNeverSubmitted ==
    [][reply'.ErrCode \in {"INVALID_REQUEST_TYPE", "INVALID_PASSWORD", "INVALID_SESSION"}
         => /\ reply'.index = 0
            /\ log' = log /\ replyChan' = replyChan
            /\ tab' = tab /\ commitIndex' = commitIndex /\ uniqueId' = uniqueId]_vars

\* a leader with an applied entry answers INVALID_PASSWORD
C6_Witness ==
    /\ reply.ErrCode = "INVALID_PASSWORD" /\ reply.leaderAtEntry
    /\ commitIndex > 0

\* C7: any OpenSession, Get or Update on a replica that does not claim
\* leadership returns WRONG_LEADER.
C7_FollowerAnswersWrongLeader ==
    (reply.rpc # "" /\ ~reply.leaderAtEntry) => reply.ErrCode = "WRONG_LEADER"

\* C7, amended: an OpenSession, Get or Update whose type fits the RPC (and,
\* for OpenSession, whose password is right), on a replica that does not claim
\* leadership, returns WRONG_LEADER; whatever a follower answers, it appends
\* nothing to the log and installs no pending slot.
C7_WellFormedOnFollower ==
    [][(reply'.rpc # "" /\ ~reply'.leaderAtEntry)
         => /\ reply'.wellFormed => reply'.ErrCode = "WRONG_LEADER"
            /\ ~reply'.wellFormed =>
                  reply'.ErrCode \in {"INVALID_REQUEST_TYPE", "INVALID_PASSWORD"}
            /\ reply'.index = 0
            /\ log' = log /\ replyChan' = replyChan]_vars

\* a follower that holds entries answers a well-formed Get with WRONG_LEADER
C7_Witness ==
    /\ reply.rpc = "Get" /\ reply.wellFormed /\ ~reply.leaderAtEntry
    /\ reply.ErrCode = "WRONG_LEADER" /\ Len(log) > 0

\* the sessions in the registry were active less than two timeouts ago
RegistryFresh ==
    sessionTimeout > 0 =>
        \A x \in DOMAIN sessionMap : now - sessionMap[x] < 2 * sessionTimeout

\* the reaper sweeps
SweepStep == wakeAt' # wakeAt /\ restarts' = restarts

C9_SnapshotEveryN ==
    /\ maxRaftState > 0 =>
          /\ commitIndex < nextSnapshotIndex
          /\ nextSnapshotIndex <= commitIndex + maxRaftState
    /\ maxRaftState <= 0 => stored = NoSnapshot

\* the state machine a snapshot holds
Decoded(bytes) == recoverFrom(bytes, 0, 0, EmptyTab)

\* the state machine right after entry i was applied
StateAfter(i) ==
    [uniqueId |-> Replay(log, i).uniqueId, commitIndex |-> i, tab |-> Replay(log, i).tab]

\* the state machine the step leaves
StateMachineNext == [uniqueId |-> uniqueId', commitIndex |-> commitIndex', tab |-> tab']

\* the apply pump makes a snapshot; StartKVServer restores one; the apply
\* pump restores one
SnapshotTaken == msg.kind = "command" /\ stored' # stored /\ restarts' = restarts

RestoredAtStart == restarts' # restarts /\ Len(stored.bytes) > 0

RestoredByMessage == msg.kind = "snapshot" /\ msg'.kind = "none" /\ restarts' = restarts

\* C10: the bytes makeSnapshot produces when the apply pump reaches index i
\* hold the uniqueId, commitIndex and tab as they are right after entry i was
\* applied; recoverFrom, at startup or on a snapshot message of index i,
\* installs exactly those, and the commitIndex it installs is i, the index
\* given to rf.Snapshot.
C10_SnapshotRoundTrip ==
    [][/\ SnapshotTaken =>
             /\ stored'.index = msg.index /\ commitIndex' = msg.index
             /\ Decoded(stored'.bytes) = StateMachineNext
             /\ StateMachineNext = StateAfter(msg.index)
       /\ RestoredAtStart => StateMachineNext = StateAfter(stored.index)
       /\ RestoredByMessage => StateMachineNext = StateAfter(msg.index)]_vars

\* the process restarted on the stored snapshot, which holds a key
C10_Witness ==
    /\ restarts < MaxRestarts /\ conf.maxRaftState > 0
    /\ stored.index > 0 /\ commitIndex = stored.index
    /\ tab # EmptyTab /\ tab = Decoded(stored.bytes).tab
    /\ uniqueId = 2

\* C11: with sessionTimeout == 0 the reaper is not started and sessions never
\* expire; with sessionTimeout < 0 StartKVServer refuses the configuration and
\* returns an error.
C11_ZeroDisablesNegativeRefused ==
    /\ conf.sessionTimeout = 0 => ~ReaperStarted
    /\ conf.sessionTimeout < 0 => StartError(conf) # ""

\* C11, amended: with sessionTimeout == 0 the server runs with the default
\* timeout of DefaultSessionTimeout seconds and starts the reaper; with
\* sessionTimeout < 0 StartKVServer returns the server, starts no reaper, and
\* no session ever leaves the registry while the process runs.
C11_ZeroIsDefaultNegativeNeverExpires ==
    [][/\ conf.sessionTimeout = 0 =>
             /\ sessionTimeout' = DefaultSessionTimeout
             /\ ReaperStarted'
             /\ wakeAt' >= DefaultSessionTimeout
       /\ conf.sessionTimeout < 0 =>
             /\ StartError(conf) = ""
             /\ ~ReaperStarted'
             /\ restarts' = restarts => DOMAIN sessionMap \subseteq DOMAIN sessionMap'
       /\ conf.sessionTimeout > 0 => sessionTimeout' = conf.sessionTimeout]_vars

\* a server whose sessionTimeout is not set holds a session, its reaper asleep
C11_Witness ==
    /\ conf.sessionTimeout = 0 /\ sessionTimeout = DefaultSessionTimeout
    /\ now > 0 /\ now < wakeAt
    /\ DOMAIN sessionMap # {}

\* the handler whose channel is registered at index i ("" when there is none)
SlotOwner(i) == IF i \in DOMAIN replyChan THEN replyChan[i] ELSE ""

\* a submit takes the place of waiter d in the registry
Displaces(d) ==
    /\ restarts' = restarts
    /\ \E i \in DOMAIN replyChan :
          replyChan[i] = d /\ i \in DOMAIN replyChan' /\ replyChan'[i] # d

\* a waiter is either the one registered at its index, its channel open and
\* empty, or it has been sent one result on a channel that is closed
WaitersNotified ==
    \A d \in Clients : pc[d] = "wait" =>
        IF SlotOwner(cmd[d].index) = d
        THEN chan[d] = NoChan
        ELSE chan[d].closed /\ Len(chan[d].buf) = 1

\* C12: when submit gets an index at which a slot is registered, the earlier
\* waiter receives exactly one result, whose term differs from the term of its
\* own submission, so that it returns WRONG_LEADER; the result is sent and the
\* old channel closed before the new slot is in the registry; at most one slot
\* is registered per index.
C12_DisplacedWaiterNotified ==
    [][/\ \A d \in Clients : Displaces(d) =>
             /\ chan[d] = NoChan
             /\ chan'[d].closed /\ Len(chan'[d].buf) = 1
             /\ chan'[d].buf[1].Term # cmd[d].term
             /\ pc'[d] = "wait"
       /\ \A d \in Clients :
             (/\ pc[d] = "wait" /\ pc'[d] # "wait" /\ restarts' = restarts
              /\ SlotOwner(cmd[d].index) # d)
                => (reply'.ErrCode = "WRONG_LEADER") = (chan[d].buf[1].Term # cmd[d].term)
       /\ WaitersNotified'
       /\ \A c, d \in Clients :
             (c # d /\ pc'[c] = "wait" /\ pc'[d] = "wait" /\ cmd'[c].index = cmd'[d].index)
                => chan'[c].closed \/ chan'[d].closed]_vars

\* a waiter has been displaced: another handler waits at its index, registered,
\* and the displaced one has a result of another term to read
C12_Witness ==
    \E c, d \in Clients :
        /\ c # d /\ pc[c] = "wait" /\ pc[d] = "wait"
        /\ cmd[c].index = cmd[d].index
        /\ SlotOwner(cmd[c].index) = c /\ chan[c] = NoChan
        /\ chan[d].closed /\ chan[d].buf[1].Term = cmd[c].term
        /\ cmd[d].term # cmd[c].term

\* handler c reads kv.tab for the reply of its Get
ReadsTab(c) == pc[c] = "read" /\ pc'[c] = "idle" /\ restarts' = restarts

\* C13: every access to tab, commitIndex, uniqueId, sessionMap, replyChan and
\* nextSnapshotIndex happens while the accessing goroutine holds kv.mu; in
\* particular the Get handler never reads tab while the apply pump, inside its
\* critical section, is changing or replacing it.
C13_AccessUnderLock ==
    [][\A c \in Clients : ReadsTab(c) => mu = "free"]_vars

\* the apply pump finishes the message it holds; it holds a command
PumpStep == msg.kind # "none" /\ msg'.kind = "none" /\ restarts' = restarts

CommandStep == msg.kind = "command" /\ PumpStep

\* C14: commitIndex never decreases over the messages the apply pump processes,
\* commands and snapshots alike: no message lowers it, not even a snapshot
\* whose encoded commitIndex is lower than the current one.
C14_CommitIndexMonotonic ==
    [][PumpStep => commitIndex' >= commitIndex]_vars

\* C15: a command message is executed only if its index is commitIndex + 1,
\* and then commitIndex grows by exactly 1; a command message with another
\* index is ignored: tab, commitIndex, uniqueId, sessionMap, the registry of
\* pending slots and nextSnapshotIndex stay as they are and no waiter is sent
\* anything.
C15_OnlyNextCommandExecuted ==
    [][CommandStep =>
         IF msg.index = commitIndex + 1
         THEN commitIndex' = commitIndex + 1
         ELSE /\ tab' = tab /\ commitIndex' = commitIndex /\ uniqueId' = uniqueId
              /\ sessionMap' = sessionMap /\ replyChan' = replyChan
              /\ nextSnapshotIndex' = nextSnapshotIndex
              /\ chan' = chan /\ stored' = stored]_vars

\* the pump has ignored a command at whose index a handler waits
C15_Witness ==
    /\ msg.kind = "none" /\ lastApplied # commitIndex
    /\ SlotOwner(lastApplied) # ""
    /\ chan[SlotOwner(lastApplied)] = NoChan

\* the session id the OpenSession entry at index i forms
SessionOfEntry(i) == MakeSessionId(Replay(log, i - 1).uniqueId, log[i].op.UUID)

\* C16: once commitIndex has reached the index of a committed OpenSession
\* entry, by applying the command or by restoring a snapshot that covers it
\* (snapshot message or restart), the session id it forms is in the session
\* registry, unless the reaper has removed it (no reaper runs here).
C16_SessionsFollowCommitIndex ==
    ~ReaperStarted =>
        \A i \in 1..commitIndex :
            log[i].op.RequestType = "OPEN_SESSION" => SessionOfEntry(i) \in DOMAIN sessionMap

\* a step of a handler or of the reaper: not of the apply pump, not a restart
OtherStep == ~PumpStep /\ restarts' = restarts

\* C17: the apply pump is the only writer of tab, commitIndex, uniqueId and of
\* the session registry: the handlers and the reaper leave all four as they are.
C17_PumpSoleWriter ==
    [][OtherStep => UNCHANGED <<tab, commitIndex, uniqueId, sessionMap>>]_vars

\* C17, amended: the apply pump is the only writer of tab, commitIndex and
\* uniqueId, and the only one that adds a session to the registry. Of the
\* others, checkSession writes the registry when it stamps the session it
\* found with the current time, and the reaper when it deletes sessions; no
\* handler adds or removes a session and the reaper changes no time stamp.
C17_PumpSoleWriterOfStateMachine ==
    [][OtherStep =>
         /\ UNCHANGED <<tab, commitIndex, uniqueId>>
         /\ DOMAIN sessionMap' \subseteq DOMAIN sessionMap
         /\ IF SweepStep
            THEN \A x \in DOMAIN sessionMap' : sessionMap'[x] = sessionMap[x]
            ELSE /\ DOMAIN sessionMap' = DOMAIN sessionMap
                 /\ \A x \in DOMAIN sessionMap :
                       sessionMap'[x] # sessionMap[x] =>
                          /\ sessionMap'[x] = now
                          /\ \E c \in Clients : PassesCheck(c) /\ req'[c].SessionId = x]_vars

\* a handler has stamped a session that was formed earlier, and the reaper
\* has deleted one
C17_Witness ==
    /\ \E c \in Clients :
          /\ pc[c] = "start" /\ now > 0
          /\ req[c].SessionId \in DOMAIN sessionMap
          /\ sessionMap[req[c].SessionId] = now
          /\ wakeAt > now
    /\ \E i \in DOMAIN applied :
          applied[i].sessionId # <<>> /\ applied[i].sessionId \notin DOMAIN sessionMap

\* the state machine this replica holds
StateMachine == [uniqueId |-> uniqueId, commitIndex |-> commitIndex, tab |-> tab]

\* C18: replica agreement. Whatever way this replica reached its commitIndex
\* (every command applied one by one, a snapshot restored and the remaining
\* commands applied, a restart from the stored snapshot), and whatever the
\* handlers did in between, its tab and uniqueId are those of a replica that
\* applied the first commitIndex entries of the committed log one by one to
\* the empty state; hence two replicas at the same commitIndex agree.
C18_ReplicaAgreement ==
    /\ commitIndex <= raftCommit
    /\ StateMachine = StateAfter(commitIndex)

\* the process restarted from its stored snapshot and applied a command on
\* top of it; the state holds a key and a session was opened
C18_Witness ==
    /\ restarts < MaxRestarts /\ stored.index > 0
    /\ commitIndex > stored.index
    /\ commitIndex \in DOMAIN applied
    /\ tab # EmptyTab /\ uniqueId > 1

\* whenever kv.mu is free, every registered channel is open and empty and
\* belongs to a handler blocked in res := <-ch
SlotsOpenAndEmpty ==
    mu = "free" =>
        \A i \in DOMAIN replyChan :
            /\ replyChan[i] \in Clients
            /\ pc[replyChan[i]] = "wait"
            /\ cmd[replyChan[i]].index = i
            /\ chan[replyChan[i]] = NoChan

\* a send puts one value in an open, empty channel and closes it in the same
\* critical section; nothing is sent after that, and no send blocks or panics
OneSendThenClose ==
    restarts' = restarts =>
        /\ \A d \in Clients :
              chan'[d] # chan[d] =>
                 \/ /\ chan[d] = NoChan
                    /\ Len(chan'[d].buf) = 1 /\ chan'[d].closed
                 \/ /\ chan'[d] = NoChan
                    /\ pc[d] \in {"install", "wait"}
        /\ \A d \in Clients : pc'[d] # "stuck"

\* the handler waits on a channel that nothing was sent to, at an index the
\* replica has passed
Unserved(c) ==
    pc[c] = "wait" /\ chan[c] = NoChan /\ commitIndex >= cmd[c].index

\* C19: every registered channel is open and empty whenever kv.mu is free; a
\* slot channel gets one send followed by a close, so that neither the apply
\* pump's delivery nor the displacement in submit blocks or sends on a closed
\* channel; and every waiter is sent its one value: a channel on which a
\* handler waits at an index the replica has passed gets its send.
C19_SlotChannels ==
    /\ []SlotsOpenAndEmpty
    /\ [][OneSendThenClose]_vars
    /\ \A c \in Clients : Unserved(c) ~> ~Unserved(c)

\* C20: whenever kv.mu is free, every index registered in kv.replyChan is
\* greater than commitIndex: no slot stays registered at an index the replica
\* has passed, be it by a command applied before the slot was registered or by
\* a snapshot.
C20_SlotsAheadOfCommitIndex ==
    mu = "free" => \A i \in DOMAIN replyChan : i > commitIndex

\* the OpenSession entries among the first n entries of the log
OpenSessionEntries(n) == {i \in 1..n : log[i].op.RequestType = "OPEN_SESSION"}

\* the session id that entry i forms when the counter is 1 plus the number of
\* OpenSession entries before it
CountedSessionId(i) ==
    MakeSessionId(1 + Cardinality(OpenSessionEntries(i - 1)), log[i].op.UUID)

\* C21: uniqueId is 1 plus the number of OpenSession entries among the log
\* indices 1..commitIndex, also after a snapshot was restored or the process
\* restarted; hence the session ids that distinct applied OpenSession entries
\* form are pairwise distinct, the apply pump forms exactly those ids, and
\* the first session of a fresh cluster has an id that begins with "1-".
C21_UniqueIdCountsOpenSessions ==
    /\ commitIndex <= Len(log)
    /\ uniqueId = 1 + Cardinality(OpenSessionEntries(commitIndex))
    /\ \A i, j \in OpenSessionEntries(commitIndex) :
          i # j => CountedSessionId(i) # CountedSessionId(j)
    /\ \A i \in DOMAIN applied :
          /\ i <= commitIndex
          /\ applied[i].sessionId # <<>> <=> i \in OpenSessionEntries(commitIndex)
          /\ applied[i].sessionId # <<>> => applied[i].sessionId = CountedSessionId(i)
          /\ (i \in OpenSessionEntries(commitIndex) /\ OpenSessionEntries(i - 1) = {})
                => SubSeq(applied[i].sessionId, 1, 2) = <<"1", SessionIdSeparator>>

\* the process restarted from a snapshot that covers one OpenSession entry and
\* another command, and its apply pump then formed the second session's id
C21_Witness ==
    /\ restarts < MaxRestarts /\ stored.index > 0
    /\ commitIndex > stored.index
    /\ OpenSessionEntries(stored.index) # {}
    /\ OpenSessionEntries(stored.index) # 1..stored.index
    /\ commitIndex \in DOMAIN applied
    /\ applied[commitIndex].sessionId = MakeSessionId(2, log[commitIndex].op.UUID)
    /\ uniqueId = 3

====
